---- MODULE Spec2Model ----
(***************************************************************************)
(* Model of the todo-list store (Redux slice) and of the TodoList          *)
(* component's handlers that drive it.                                     *)
(*                                                                         *)
(* The repository holds two versions of the slice:                         *)
(*   src/unnamed/part_000        ids from Date.now(), todoNo renumbered    *)
(*   src/src/store/todoSlice.ts  ids from nanoid(), todoNo = length + 1    *)
(* The variable `slice` says which one a behaviour runs; it never changes. *)
(*                                                                         *)
(* Strings are sequences of one-character strings, so that trim() and the  *)
(* JSON encoding are computed and not assumed.                             *)
(***************************************************************************)
EXTENDS Integers, Sequences, FiniteSets

VARIABLES
    slice,            \* "part_000" or "todoSlice": the slice file in use
    todos,            \* state.todos
    searchQuery,      \* state.searchQuery
    storage,          \* localStorage's entry under the key 'todos'
    now,              \* the last value Date.now() returned
    nanoCalls,        \* how many ids nanoid() has produced
    editingTodo,      \* TodoList's editingTodo
    isEditModalOpen,  \* TodoList's isEditModalOpen
    phase,            \* "rendered" (before the mount effect), "mounted", "crashed"
    failures,         \* how many localStorage calls have thrown
    addLog,           \* the titles added since todos was last empty, while
                      \* nothing but adds has changed todos (observation only)
    last              \* what the last handler call did (observation only)

vars == <<slice, todos, searchQuery, storage, now, nanoCalls,
          editingTodo, isEditModalOpen, phase, failures, addLog, last>>

-----------------------------------------------------------------------------
(* Bounds *)

MaxTodos == 2
MaxClock == 2
MaxNano == 2
MaxFailures == 1

-----------------------------------------------------------------------------
(* Strings *)

Whitespace == {" "}

RECURSIVE TrimStart(_)
TrimStart(s) ==
    IF s = <<>> THEN s
    ELSE IF Head(s) \in Whitespace THEN TrimStart(Tail(s)) ELSE s

RECURSIVE TrimEnd(_)
TrimEnd(s) ==
    IF s = <<>> THEN s
    ELSE IF s[Len(s)] \in Whitespace THEN TrimEnd(SubSeq(s, 1, Len(s) - 1)) ELSE s

\* faulty variant: trimStart() in place of trim()
Trim_start(s) == TrimStart(s)

\* faulty variant: the text is used as typed, trim() is not called
Trim_none(s) == s

\* String.prototype.trim
Trim(s) == TrimEnd(TrimStart(s))

\* String.prototype.toLowerCase, on the letters the inputs use
LowerOf(c) == IF c = "A" THEN "a" ELSE IF c = "B" THEN "b" ELSE c

ToLowerCase(s) == [i \in 1..Len(s) |-> LowerOf(s[i])]

\* String.prototype.includes
Includes(s, q) == \E k \in 0..(Len(s) - Len(q)) : SubSeq(s, k + 1, k + Len(q)) = q

DigitChars == <<"0", "1", "2", "3", "4", "5", "6", "7", "8", "9">>

IsDigit(c) == \E d \in 1..10 : DigitChars[d] = c

DigitVal(c) == (CHOOSE d \in 1..10 : DigitChars[d] = c) - 1

\* Number.prototype.toString for a non-negative integer
RECURSIVE ToString(_)
ToString(n) ==
    IF n < 10 THEN <<DigitChars[n + 1]>>
    ELSE ToString(n \div 10) \o <<DigitChars[(n % 10) + 1]>>

-----------------------------------------------------------------------------
(* JSON text: a sequence of tokens, each a string.  Punctuation, the        *)
(* literals and the five member names (with their colon) are one token      *)
(* each; a string value is a quote, its characters, a quote; a number is    *)
(* its decimal digits.  The characters used never need escaping.            *)

Quote == "\""
KeyId == "\"id\":"
KeyTodoNo == "\"todoNo\":"
KeyText == "\"text\":"
KeyDescription == "\"description\":"
KeyCompleted == "\"completed\":"

JSONString(s) == <<Quote>> \o s \o <<Quote>>

JSONBoolean(b) == IF b THEN <<"true">> ELSE <<"false">>

\* JSON.stringify of one Todo: members in the order the object was built
JSONStringifyTodo(t) ==
    <<"{", KeyId>> \o JSONString(t.id)
    \o <<",", KeyTodoNo>> \o ToString(t.todoNo)
    \o <<",", KeyText>> \o JSONString(t.text)
    \o <<",", KeyDescription>> \o JSONString(t.description)
    \o <<",", KeyCompleted>> \o JSONBoolean(t.completed)
    \o <<"}">>

RECURSIVE JSONStringifyElems(_)
JSONStringifyElems(ts) ==
    IF ts = <<>> THEN <<>>
    ELSE IF Len(ts) = 1 THEN JSONStringifyTodo(ts[1])
    ELSE JSONStringifyTodo(ts[1]) \o <<",">> \o JSONStringifyElems(Tail(ts))

\* JSON.stringify(todos)
JSONStringify(ts) == <<"[">> \o JSONStringifyElems(ts) \o <<"]">>

\* the token at position i, or the end marker
At(t, i) == IF i \in 1..Len(t) THEN t[i] ELSE "<eof>"

ScanFail == [ok |-> FALSE, val |-> <<>>, next |-> 0]

\* a string value starting at i: up to the next quote
ScanString(t, i) ==
    IF At(t, i) # Quote THEN ScanFail
    ELSE LET closing == {j \in (i + 1)..Len(t) : t[j] = Quote}
         IN  IF closing = {} THEN ScanFail
             ELSE LET j == CHOOSE k \in closing : \A m \in closing : k <= m
                  IN  [ok |-> TRUE, val |-> SubSeq(t, i + 1, j - 1), next |-> j + 1]

RECURSIVE DigitsValue(_)
DigitsValue(ds) ==
    IF ds = <<>> THEN 0
    ELSE 10 * DigitsValue(SubSeq(ds, 1, Len(ds) - 1)) + DigitVal(ds[Len(ds)])

\* a number starting at i: the longest run of digits
ScanNumber(t, i) ==
    IF ~IsDigit(At(t, i)) THEN [ok |-> FALSE, val |-> 0, next |-> 0]
    ELSE LET stop == {j \in i..Len(t) : ~IsDigit(At(t, j + 1))}
             j == CHOOSE k \in stop : \A m \in stop : k <= m
         IN  [ok |-> TRUE, val |-> DigitsValue(SubSeq(t, i, j)), next |-> j + 1]

ScanBoolean(t, i) ==
    IF At(t, i) = "true" THEN [ok |-> TRUE, val |-> TRUE, next |-> i + 1]
    ELSE IF At(t, i) = "false" THEN [ok |-> TRUE, val |-> FALSE, next |-> i + 1]
    ELSE [ok |-> FALSE, val |-> FALSE, next |-> 0]

NoTodo == [id |-> <<>>, todoNo |-> 0, text |-> <<>>, description |-> <<>>,
           completed |-> FALSE]

TodoFail == [ok |-> FALSE, val |-> NoTodo, next |-> 0]

\* An object with the five members of a Todo, starting at i.  Each step
\* checks what the step before it scanned and scans the next member.
TodoEnd(t, a, b, c, d, e) ==
    IF ~(e.ok /\ At(t, e.next) = "}") THEN TodoFail
    ELSE [ok |-> TRUE,
          val |-> [id |-> a.val, todoNo |-> b.val, text |-> c.val,
                   description |-> d.val, completed |-> e.val],
          next |-> e.next + 1]

TodoCompleted(t, a, b, c, d) ==
    IF ~(d.ok /\ At(t, d.next) = "," /\ At(t, d.next + 1) = KeyCompleted)
    THEN TodoFail
    ELSE TodoEnd(t, a, b, c, d, ScanBoolean(t, d.next + 2))

TodoDescription(t, a, b, c) ==
    IF ~(c.ok /\ At(t, c.next) = "," /\ At(t, c.next + 1) = KeyDescription)
    THEN TodoFail
    ELSE TodoCompleted(t, a, b, c, ScanString(t, c.next + 2))

TodoText(t, a, b) ==
    IF ~(b.ok /\ At(t, b.next) = "," /\ At(t, b.next + 1) = KeyText)
    THEN TodoFail
    ELSE TodoDescription(t, a, b, ScanString(t, b.next + 2))

TodoTodoNo(t, a) ==
    IF ~(a.ok /\ At(t, a.next) = "," /\ At(t, a.next + 1) = KeyTodoNo)
    THEN TodoFail
    ELSE TodoText(t, a, ScanNumber(t, a.next + 2))

ScanTodo(t, i) ==
    IF ~(At(t, i) = "{" /\ At(t, i + 1) = KeyId) THEN TodoFail
    ELSE TodoTodoNo(t, ScanString(t, i + 2))

ElemsFail == [ok |-> FALSE, val |-> <<>>, next |-> 0]

\* the elements of an array, the first of them starting at i, up to its "]"
RECURSIVE ScanElems(_, _, _)
ElemsAfter(t, x, acc) ==
    IF ~x.ok THEN ElemsFail
    ELSE IF At(t, x.next) = "," THEN ScanElems(t, x.next + 1, Append(acc, x.val))
    ELSE IF At(t, x.next) = "]"
         THEN [ok |-> TRUE, val |-> Append(acc, x.val), next |-> x.next + 1]
    ELSE ElemsFail

ScanElems(t, i, acc) == ElemsAfter(t, ScanTodo(t, i), acc)

ArrayOf(t, r) ==
    IF r.ok /\ r.next = Len(t) + 1 THEN [kind |-> "array", elems |-> r.val]
    ELSE [kind |-> "error", elems |-> <<>>]

JSONValue(k, es) == [kind |-> k, elems |-> es]

\* JSON.parse, for the values met here: null, the empty object, and an array
\* of Todo objects.  kind "error" is a thrown SyntaxError.
JSONParse(t) ==
    IF t = <<"null">> THEN JSONValue("null", <<>>)
    ELSE IF t = <<"{", "}">> THEN JSONValue("object", <<>>)
    ELSE IF t = <<"[", "]">> THEN JSONValue("array", <<>>)
    ELSE IF At(t, 1) = "[" THEN ArrayOf(t, ScanElems(t, 2, <<>>))
    ELSE JSONValue("error", <<>>)

-----------------------------------------------------------------------------
(* Inputs *)

\* what the user may have typed into a title field and the description field
\* beside it when the button is clicked: <<title, description>>
FieldInputs ==
    { <<<<" ">>, <<"x">>>>,
      <<<<"a", "b">>, <<>>>>,
      <<<<" ", "B", " ">>, <<" ", "d">>>> }

\* what the user may type into the search field
SearchInputs == {<<>>, <<"A">>}

\* a list an earlier session left in storage; todoSlice.ts leaves such
\* numbers behind after it deleted the items in front of this one
StoredTodos ==
    <<[id |-> ToString(0), todoNo |-> 3, text |-> <<"a", "b">>,
       description |-> <<>>, completed |-> TRUE]>>

NoItem == [present |-> FALSE, text |-> <<>>]

Item(text) == [present |-> TRUE, text |-> text]

\* stored values that JSON.parse turns into an array, or that are not parsed
ArrayStorage ==
    {NoItem, Item(<<>>), Item(<<"[", "{">>), Item(JSONStringify(StoredTodos))}

\* stored values that are valid JSON but no array
NonArrayStorage == {Item(<<"null">>), Item(<<"{", "}">>)}

\* todoSlice.ts assigns whatever JSON.parse returns to state.todos, and the
\* first render of a non-array throws; that file is explored from stored
\* values that give an array.
InitialStorage(sl) ==
    IF sl = "part_000" THEN ArrayStorage \cup NonArrayStorage ELSE ArrayStorage

\* the ids a handler may be called with (a row's id, possibly stale)
NanoId(k) == <<"n">> \o ToString(k)

IdPool(sl) ==
    IF sl = "part_000" THEN {ToString(n) : n \in 0..MaxClock}
    ELSE {ToString(0)} \cup {NanoId(k) : k \in 1..MaxNano}

-----------------------------------------------------------------------------
(* The persistence helpers *)

\* typeof window !== 'undefined': the handlers run in the browser only
WindowDefined == TRUE

\* loadFromLocalStorage; readOk = FALSE is a getItem that throws
loadFromLocalStorage(st, readOk) ==
    IF ~WindowDefined THEN JSONValue("array", <<>>)
    ELSE IF ~readOk THEN JSONValue("array", <<>>)
    ELSE IF ~st.present \/ st.text = <<>> THEN JSONValue("array", <<>>)
    ELSE LET v == JSONParse(st.text)
         IN  IF v.kind = "error" THEN JSONValue("array", <<>>) ELSE v

\* faulty variant: an empty list is not written
saveToLocalStorage_skipEmpty(st, ts, writeOk) ==
    IF WindowDefined /\ writeOk /\ ts # <<>> THEN Item(JSONStringify(ts)) ELSE st

\* faulty variant: the catch block calls localStorage.removeItem('todos')
saveToLocalStorage_removeOnError(st, ts, writeOk) ==
    IF WindowDefined /\ writeOk THEN Item(JSONStringify(ts)) ELSE NoItem

\* faulty variant: JSON.stringify(todos.filter(todo => !todo.completed))
saveToLocalStorage_activeOnly(st, ts, writeOk) ==
    IF WindowDefined /\ writeOk
    THEN Item(JSONStringify(SelectSeq(ts, LAMBDA todo : ~todo.completed)))
    ELSE st

\* saveToLocalStorage; writeOk = FALSE is a setItem that throws
saveToLocalStorage(st, ts, writeOk) ==
    IF WindowDefined /\ writeOk THEN Item(JSONStringify(ts)) ELSE st

-----------------------------------------------------------------------------
(* The reducers, as functions of state.todos *)

\* todos.forEach((todo, index) => { todo.todoNo = index + 1; })
Renumber(ts) == [i \in 1..Len(ts) |-> [ts[i] EXCEPT !.todoNo = i]]

\* todos.find(todo => todo.id === id): the index of the first match, or 0
Find(ts, id) ==
    IF \E i \in 1..Len(ts) : ts[i].id = id
    THEN CHOOSE i \in 1..Len(ts) :
             ts[i].id = id /\ \A j \in 1..(i - 1) : ts[j].id # id
    ELSE 0

\* todos.filter(todo => todo.id !== id)
RECURSIVE Filter(_, _)
Filter(ts, id) ==
    IF ts = <<>> THEN <<>>
    ELSE IF Head(ts).id # id THEN <<Head(ts)>> \o Filter(Tail(ts), id)
    ELSE Filter(Tail(ts), id)

RECURSIVE MaxTodoNo(_)
MaxTodoNo(ts) ==
    IF ts = <<>> THEN 0
    ELSE LET m == MaxTodoNo(Tail(ts))
         IN  IF Head(ts).todoNo > m THEN Head(ts).todoNo ELSE m

\* faulty variant: unshift in place of push
addTodo_unshift(ts, id, text, description) ==
    Renumber(<<[id |-> id, todoNo |-> MaxTodoNo(ts) + 1, text |-> text,
                description |-> description, completed |-> FALSE]>> \o ts)

\* faulty variant: newTodo is built without the payload's description
addTodo_noDescription(ts, id, text, description) ==
    Renumber(Append(ts, [id |-> id, todoNo |-> MaxTodoNo(ts) + 1, text |-> text,
                         description |-> <<>>, completed |-> FALSE]))

\* part_000 addTodo
addTodo(ts, id, text, description) ==
    Renumber(Append(ts, [id |-> id, todoNo |-> MaxTodoNo(ts) + 1, text |-> text,
                         description |-> description, completed |-> FALSE]))

\* todoSlice.ts addTodo
addTodo_nanoid(ts, id, text, description) ==
    Append(ts, [id |-> id, todoNo |-> Len(ts) + 1, text |-> text,
                description |-> description, completed |-> FALSE])

\* faulty variant: todos.at(todos.findIndex(...)), which is the last item
\* when no id matches
toggleTodo_at(ts, id) ==
    LET i == IF Find(ts, id) = 0 THEN Len(ts) ELSE Find(ts, id)
    IN  IF i = 0 THEN ts ELSE [ts EXCEPT ![i].completed = ~ts[i].completed]

\* faulty variant: todo.completed = true
toggleTodo_setTrue(ts, id) ==
    IF Find(ts, id) = 0 THEN ts ELSE [ts EXCEPT ![Find(ts, id)].completed = TRUE]

\* faulty variant: when the id is found, every item is flipped
toggleTodo_all(ts, id) ==
    IF Find(ts, id) = 0 THEN ts
    ELSE [i \in 1..Len(ts) |-> [ts[i] EXCEPT !.completed = ~ts[i].completed]]

\* toggleTodo (the same in both files)
toggleTodo(ts, id) ==
    LET i == Find(ts, id)
    IN  IF i = 0 THEN ts ELSE [ts EXCEPT ![i].completed = ~ts[i].completed]

\* faulty variant: todos.splice(todos.findIndex(...), 1), which removes the
\* last item when no id matches
deleteTodo_splice(ts, id) ==
    IF ts = <<>> THEN ts
    ELSE IF Find(ts, id) = 0 THEN Renumber(SubSeq(ts, 1, Len(ts) - 1))
    ELSE Renumber(Filter(ts, id))

\* part_000 deleteTodo
deleteTodo(ts, id) == Renumber(Filter(ts, id))

\* todoSlice.ts deleteTodo
deleteTodo_nanoid(ts, id) == Filter(ts, id)

\* faulty variant: todo.description is not assigned
updateTodoText_textOnly(ts, id, text, description) ==
    IF Find(ts, id) = 0 THEN ts ELSE [ts EXCEPT ![Find(ts, id)].text = text]

\* faulty variant: the item is rebuilt with completed: false
updateTodoText_resetCompleted(ts, id, text, description) ==
    IF Find(ts, id) = 0 THEN ts
    ELSE [ts EXCEPT ![Find(ts, id)].text = text,
                    ![Find(ts, id)].description = description,
                    ![Find(ts, id)].completed = FALSE]

\* faulty variant: an id that is not found is added as a new item
updateTodoText_upsert(ts, id, text, description) ==
    IF Find(ts, id) = 0
    THEN Append(ts, [id |-> id, todoNo |-> Len(ts) + 1, text |-> text,
                     description |-> description, completed |-> FALSE])
    ELSE [ts EXCEPT ![Find(ts, id)].text = text,
                    ![Find(ts, id)].description = description]

\* updateTodoText (the same in both files)
updateTodoText(ts, id, text, description) ==
    LET i == Find(ts, id)
    IN  IF i = 0 THEN ts
        ELSE [ts EXCEPT ![i].text = text, ![i].description = description]

\* faulty variant: todo.todoNo = index
initializeTodos_zeroBased(loaded) ==
    [i \in 1..Len(loaded) |-> [loaded[i] EXCEPT !.todoNo = i - 1]]

\* faulty variant: state.todos.push(...loadedTodos)
assignTodos_push(ts, loaded) == ts \o loaded

\* state.todos = loadedTodos
assignTodos(ts, loaded) == loaded

\* part_000 initializeTodos, given an array
initializeTodos(loaded) == Renumber(loaded)

\* todoSlice.ts initializeTodos
initializeTodos_nanoid(loaded) == loaded

\* faulty variant: state.searchQuery = action.payload.toLowerCase()
setSearchQuery_lower(q, value) == ToLowerCase(value)

\* setSearchQuery (the same in both files)
setSearchQuery(q, value) == value

\* faulty variant: the query is compared as typed
filteredTodos_caseSensitive(ts, q) ==
    SelectSeq(ts, LAMBDA todo : Includes(ToLowerCase(todo.text), q))

\* TodoList's filteredTodos
filteredTodos(ts, q) ==
    SelectSeq(ts, LAMBDA todo : Includes(ToLowerCase(todo.text), ToLowerCase(q)))

-----------------------------------------------------------------------------
(* The state machine *)

\* editingTodo is null or a copy of a Todo; its id is kept here.  The text
\* and description of the copy are what the modal's two fields show, and
\* they are inputs of handleSaveEdit, like the two fields of handleAddTodo.
NoEdit == [isNull |-> TRUE, id |-> <<>>]

\* The record of the last handler call that reached the store:
\*   op     the handler
\*   arg    the id it was called with (handleToggleTodo, handleDeleteTodo),
\*          the title typed in its field (handleAddTodo, handleSaveEdit),
\*          the value typed in the search field (handleSearchChange)
\*   arg2   the description typed beside the title (handleAddTodo,
\*          handleSaveEdit)
\*   hit    whether it found its item, or for handleAddTodo dispatched
\*   again  for handleToggleTodo, handleDeleteTodo and the mount effect:
\*          whether the call before it was the same handler with the same arg
\*   write  "ok" / "failed" / "none": what its setItem call did, if it made one
\*   read   the same for its getItem call
\*   raised whether an exception reached the caller
\*   before for handleToggleTodo: state.todos when it was called
\*   before2 for handleToggleTodo called again: state.todos when the call
\*          before it was made
Repeatable == {"handleToggleTodo", "handleDeleteTodo", "initializeTodos"}

Did(op, arg, hit, write, read, raised) ==
    [op |-> op, arg |-> arg, arg2 |-> <<>>, hit |-> hit,
     again |-> (op \in Repeatable /\ last.op = op /\ last.arg = arg),
     write |-> write, read |-> read, raised |-> raised,
     before |-> IF op = "handleToggleTodo" THEN todos ELSE <<>>,
     before2 |-> IF op = "handleToggleTodo" /\ last.op = op /\ last.arg = arg
                 THEN last.before ELSE <<>>]

\* the record of a handler that read its two fields
DidFields(op, fields, hit, write) ==
    [Did(op, fields[1], hit, write, "none", FALSE) EXCEPT !.arg2 = fields[2]]

CallResult(ok) == IF ok THEN "ok" ELSE "failed"

\* whether the next localStorage call returns (TRUE) or throws (FALSE)
Outcomes == IF failures < MaxFailures THEN BOOLEAN ELSE {TRUE}

Count(ok) == IF ok THEN failures ELSE failures + 1

\* the reducer ends with saveToLocalStorage(state.todos)
Save(ts, writeOk) ==
    /\ storage' = saveToLocalStorage(storage, ts, writeOk)
    /\ failures' = Count(writeOk)

EmptyLog == [valid |-> TRUE, titles |-> <<>>]

\* addLog after a handler other than handleAddTodo took todos from ts to ts2
Logged(ts, ts2) ==
    IF ts2 = <<>> THEN EmptyLog
    ELSE IF ts2 = ts THEN addLog
    ELSE [valid |-> FALSE, titles |-> <<>>]

\* addLog after handleAddTodo dispatched addTodo with this title
LoggedAdd(title) ==
    IF addLog.valid THEN [addLog EXCEPT !.titles = Append(@, title)] ELSE addLog

Init ==
    /\ slice \in {"part_000", "todoSlice"}
    /\ todos = <<>>
    /\ searchQuery = <<>>
    /\ storage \in InitialStorage(slice)
    /\ now = 1
    /\ nanoCalls = 0
    /\ editingTodo = NoEdit
    /\ isEditModalOpen = FALSE
    /\ phase = "rendered"
    /\ failures = 0
    /\ addLog = EmptyLog
    /\ last = [op |-> "none", arg |-> <<>>, arg2 |-> <<>>, hit |-> FALSE, again |-> FALSE,
               write |-> "none", read |-> "none", raised |-> FALSE,
               before |-> <<>>, before2 |-> <<>>]

\* useEffect(() => { dispatch(initializeTodos()); })
InitializeTodos ==
    /\ phase \in {"rendered", "mounted"}
    /\ \E readOk \in Outcomes :
         LET loaded == loadFromLocalStorage(storage, readOk)
         IN  /\ failures' = Count(readOk)
             /\ IF loaded.kind = "array"
                THEN /\ todos' = assignTodos(todos,
                                     IF slice = "part_000"
                                     THEN initializeTodos(loaded.elems)
                                     ELSE initializeTodos_nanoid(loaded.elems))
                     /\ phase' = "mounted"
                     /\ addLog' = Logged(todos, todos')
                     /\ last' = Did("initializeTodos", <<>>, TRUE, "none",
                                    CallResult(readOk), FALSE)
                ELSE \* loadedTodos.forEach is not a function: a TypeError
                     /\ slice = "part_000"
                     /\ todos' = todos
                     /\ phase' = "crashed"
                     /\ addLog' = addLog
                     /\ last' = Did("initializeTodos", <<>>, FALSE, "none",
                                    CallResult(readOk), TRUE)
    /\ UNCHANGED <<slice, searchQuery, storage, now, nanoCalls, editingTodo,
                   isEditModalOpen>>

\* dispatch(addTodo({text, description})) under part_000
DispatchAddTodo(text, description) ==
    \E t \in now..MaxClock :
        /\ now' = t
        /\ nanoCalls' = nanoCalls
        /\ todos' = addTodo(todos, ToString(t), text, description)

\* dispatch(addTodo({text, description})) under todoSlice.ts
DispatchAddTodo_nanoid(text, description) ==
    /\ nanoCalls < MaxNano
    /\ nanoCalls' = nanoCalls + 1
    /\ now' = now
    /\ todos' = addTodo_nanoid(todos, NanoId(nanoCalls + 1), text, description)

\* handleAddTodo; the two fields' contents at the click are its inputs
HandleAddTodo ==
    /\ phase = "mounted"
    /\ \E fields \in FieldInputs :
         LET newTodoText == fields[1]
             newTodoDescription == fields[2]
         IN
         IF Trim(newTodoText) # <<>>
         THEN /\ Len(todos) < MaxTodos
              /\ IF slice = "part_000"
                 THEN DispatchAddTodo(Trim(newTodoText), Trim(newTodoDescription))
                 ELSE DispatchAddTodo_nanoid(Trim(newTodoText),
                                             Trim(newTodoDescription))
              /\ \E writeOk \in Outcomes :
                   /\ Save(todos', writeOk)
                   /\ last' = DidFields("handleAddTodo", fields, TRUE,
                                        CallResult(writeOk))
              /\ addLog' = LoggedAdd(Trim(newTodoText))
         ELSE /\ UNCHANGED <<todos, storage, now, nanoCalls, failures, addLog>>
              /\ last' = DidFields("handleAddTodo", fields, FALSE, "none")
    /\ UNCHANGED <<slice, searchQuery, editingTodo, isEditModalOpen, phase>>

\* handleToggleTodo
HandleToggleTodo ==
    /\ phase = "mounted"
    /\ \E id \in IdPool(slice) :
         /\ todos' = toggleTodo(todos, id)
         /\ addLog' = Logged(todos, todos')
         /\ IF Find(todos, id) # 0
            THEN \E writeOk \in Outcomes :
                   /\ Save(todos', writeOk)
                   /\ last' = Did("handleToggleTodo", id, TRUE, CallResult(writeOk),
                                  "none", FALSE)
            ELSE /\ UNCHANGED <<storage, failures>>
                 /\ last' = Did("handleToggleTodo", id, FALSE, "none", "none", FALSE)
    /\ UNCHANGED <<slice, searchQuery, now, nanoCalls, editingTodo,
                   isEditModalOpen, phase>>

\* handleDeleteTodo
HandleDeleteTodo ==
    /\ phase = "mounted"
    /\ \E id \in IdPool(slice), writeOk \in Outcomes :
         /\ todos' = IF slice = "part_000" THEN deleteTodo(todos, id)
                     ELSE deleteTodo_nanoid(todos, id)
         /\ Save(todos', writeOk)
         /\ addLog' = Logged(todos, todos')
         /\ last' = Did("handleDeleteTodo", id, Find(todos, id) # 0,
                        CallResult(writeOk), "none", FALSE)
    /\ UNCHANGED <<slice, searchQuery, now, nanoCalls, editingTodo,
                   isEditModalOpen, phase>>

\* handleEditTodo
HandleEditTodo ==
    /\ phase = "mounted"
    /\ \E id \in IdPool(slice) :
         LET i == Find(todos, id)
         IN  IF i # 0
             THEN /\ editingTodo' = [isNull |-> FALSE, id |-> todos[i].id]
                  /\ isEditModalOpen' = TRUE
             ELSE UNCHANGED <<editingTodo, isEditModalOpen>>
    /\ UNCHANGED <<slice, todos, searchQuery, storage, now, nanoCalls, phase,
                   failures, addLog, last>>

\* the modal's onTextChange and onDescriptionChange:
\* setEditingTodo(prev => prev ? { ...prev, text: value } : null)
OnTextChange ==
    /\ phase = "mounted"
    /\ isEditModalOpen
    /\ editingTodo' = IF editingTodo.isNull THEN NoEdit ELSE editingTodo
    /\ UNCHANGED <<slice, todos, searchQuery, storage, now, nanoCalls,
                   isEditModalOpen, phase, failures, addLog, last>>

\* handleSaveEdit; the modal's two fields' contents at the click are its inputs
HandleSaveEdit ==
    /\ phase = "mounted"
    /\ isEditModalOpen
    /\ \E fields \in FieldInputs :
         LET text == fields[1]
             description == fields[2]
         IN
         IF ~editingTodo.isNull /\ Trim(text) # <<>>
         THEN /\ todos' = updateTodoText(todos, editingTodo.id, Trim(text),
                                         Trim(description))
              /\ addLog' = Logged(todos, todos')
              /\ IF Find(todos, editingTodo.id) # 0
                 THEN \E writeOk \in Outcomes :
                        /\ Save(todos', writeOk)
                        /\ last' = DidFields("handleSaveEdit", fields, TRUE,
                                             CallResult(writeOk))
                 ELSE /\ UNCHANGED <<storage, failures>>
                      /\ last' = DidFields("handleSaveEdit", fields, FALSE,
                                           "none")
              /\ isEditModalOpen' = FALSE
              /\ editingTodo' = NoEdit
         ELSE /\ UNCHANGED <<todos, storage, isEditModalOpen, editingTodo, failures,
                             addLog>>
              /\ last' = DidFields("handleSaveEdit", fields, FALSE, "none")
    /\ UNCHANGED <<slice, searchQuery, now, nanoCalls, phase>>

\* handleCancelEdit
HandleCancelEdit ==
    /\ phase = "mounted"
    /\ isEditModalOpen
    /\ isEditModalOpen' = FALSE
    /\ editingTodo' = NoEdit
    /\ UNCHANGED <<slice, todos, searchQuery, storage, now, nanoCalls, phase,
                   failures, addLog, last>>

\* handleSearchChange
HandleSearchChange ==
    /\ phase = "mounted"
    /\ \E value \in SearchInputs :
         /\ searchQuery' = setSearchQuery(searchQuery, value)
         /\ last' = Did("handleSearchChange", value, TRUE, "none", "none", FALSE)
    /\ UNCHANGED <<slice, todos, storage, now, nanoCalls, editingTodo,
                   isEditModalOpen, phase, failures, addLog>>

Next ==
    \/ InitializeTodos
    \/ HandleAddTodo
    \/ HandleToggleTodo
    \/ HandleDeleteTodo
    \/ HandleEditTodo
    \/ OnTextChange
    \/ HandleSaveEdit
    \/ HandleCancelEdit
    \/ HandleSearchChange

Spec == Init /\ [][Next]_vars

-----------------------------------------------------------------------------
(* Properties *)

MutatingOps ==
    {"handleAddTodo", "handleToggleTodo", "handleDeleteTodo", "handleSaveEdit"}

\* the last call was a mutating one that reached saveToLocalStorage
Persisting == last.op \in MutatingOps /\ last.write # "none"

\* the entry under the key decodes to exactly ts
PersistedIs(ts) ==
    storage.present /\ JSONParse(storage.text) = JSONValue("array", ts)

\* no character of s is other than whitespace
IsBlank(s) == \A i \in 1..Len(s) : s[i] \in Whitespace

\* no item of ts has this id
Absent(id, ts) == \A i \in 1..Len(ts) : ts[i].id # id

\* C1: in every reachable state each item's todoNo is its 1-based position in
\* todos.  Violated under todoSlice.ts, which assigns length + 1 on add and
\* renumbers neither on delete nor on load.
C1_TodoNoIsPosition == \A i \in 1..Len(todos) : todos[i].todoNo = i

\* C2 as stated: after every mutating call that persists, the entry under the
\* key decodes to exactly the current todos.  Violated when setItem throws.
C2_StorageReflectsTodos == Persisting => PersistedIs(todos)

\* C2: after every mutating call whose setItem returned, the entry under the
\* key decodes to exactly the current todos: same items, order and fields.
C2_StorageReflectsTodosWhenWritten ==
    (Persisting /\ last.write = "ok") => PersistedIs(todos)

C2_Witness ==
    /\ last.op = "handleToggleTodo" /\ last.hit /\ last.write = "ok"
    /\ Len(todos) = 2
    /\ \E i \in 1..Len(todos) : todos[i].completed

\* C3: in every reachable state no two items of todos have the same id.
\* Violated under part_000 by two adds that read the same Date.now().
C3_IdsUnique ==
    \A i, j \in 1..Len(todos) : i # j => todos[i].id # todos[j].id

\* C4: handleAddTodo with a title that is blank (empty once trimmed) changes
\* neither todos nor the entry under the key.
C4_BlankAddIsNoOp ==
    [][(last'.op = "handleAddTodo" /\ IsBlank(last'.arg))
         => (todos' = todos /\ storage' = storage)]_vars

C4_Witness ==
    /\ last.op = "handleAddTodo" /\ IsBlank(last.arg) /\ last.arg # <<>>
    /\ Len(todos) >= 1

\* C5: while todos has only grown by adds since it was last empty, its length
\* is the number of adds, its items carry the added titles in the order they
\* were added, and their todoNo values are 1, 2, ..., N.
C5_AddsAppendInOrder ==
    addLog.valid =>
        /\ Len(todos) = Len(addLog.titles)
        /\ \A i \in 1..Len(todos) :
             todos[i].text = addLog.titles[i] /\ todos[i].todoNo = i

C5_Witness ==
    /\ addLog.valid
    /\ Len(todos) = 2
    /\ todos[1].text # todos[2].text

\* C6 as stated: initializeTodos right after a mutating call leaves todos equal
\* to what it was just before.  Violated when the mutating call's setItem or
\* this call's getItem throws.
C6_InitializeRestores ==
    [][(last.op \in MutatingOps /\ last'.op = "initializeTodos")
         => todos' = todos]_vars

\* C6: initializeTodos right after a mutating call whose setItem returned, with
\* a getItem that returns, leaves todos equal to what it was just before, field
\* for field and in the same order.
C6_InitializeRestoresWhatWasWritten ==
    [][(/\ last.op \in MutatingOps /\ last.write = "ok"
        /\ last'.op = "initializeTodos" /\ last'.read = "ok")
         => todos' = todos]_vars

C6_Witness ==
    /\ last.op = "initializeTodos" /\ last.read = "ok"
    /\ \E i \in 1..Len(todos) : todos[i].id # ToString(0) /\ todos[i].completed

\* the step is a call with an id that matches no item
ToggleMiss == last'.op = "handleToggleTodo" /\ Absent(last'.arg, todos)

DeleteMiss == last'.op = "handleDeleteTodo" /\ Absent(last'.arg, todos)

SaveMiss ==
    /\ last'.op = "handleSaveEdit"
    /\ isEditModalOpen /\ ~isEditModalOpen'
    /\ ~editingTodo.isNull /\ Absent(editingTodo.id, todos)

\* C7 as stated: a toggle, update or delete with an id that matches no item
\* leaves todos, searchQuery and the entry under the key as they were.
\* Violated by deleteTodo, which always calls saveToLocalStorage.
C7_MissChangesNothing ==
    [][(ToggleMiss \/ DeleteMiss \/ SaveMiss)
         => UNCHANGED <<todos, searchQuery, storage>>]_vars

\* C7: a toggle or update with an id that matches no item raises nothing and
\* leaves todos, searchQuery and the entry under the key as they were; a delete
\* with such an id raises nothing, leaves todos and searchQuery as they were,
\* and leaves the entry as it was or holding the encoding of the unchanged
\* todos.
C7_MissChangesNoItem ==
    [][/\ (ToggleMiss \/ SaveMiss)
            => (UNCHANGED <<todos, searchQuery, storage>> /\ ~last'.raised)
       /\ DeleteMiss
            => /\ UNCHANGED <<todos, searchQuery>>
               /\ storage' \in {storage, Item(JSONStringify(todos))}
               /\ ~last'.raised]_vars

C7_Witness ==
    /\ last.op = "handleDeleteTodo" /\ ~last.hit /\ last.write = "ok"
    /\ Len(todos) >= 1

\* the step follows a handleDeleteTodo and is a handleDeleteTodo with the same
\* id, or a step that leaves the store alone
DeleteAgain ==
    /\ last.op = "handleDeleteTodo"
    /\ last'.op = "handleDeleteTodo"
    /\ last'.arg = last.arg

\* C8 as stated: a second delete with the same id leaves todos, searchQuery and
\* the entry under the key as the first left them.  Violated when the first
\* call's setItem throws and the second call's returns.
C8_DeleteTwice ==
    [][DeleteAgain => UNCHANGED <<todos, searchQuery, storage>>]_vars

\* C8: a second delete with the same id leaves todos and searchQuery as the
\* first left them, and the entry under the key too when the first call's
\* setItem returned.
C8_DeleteTwiceItems ==
    [][DeleteAgain
         => /\ UNCHANGED <<todos, searchQuery>>
            /\ last.write = "ok" => storage' = storage]_vars

C8_Witness ==
    /\ last.op = "handleDeleteTodo" /\ last.again /\ last.write = "ok"
    /\ Len(todos) >= 1

\* C9: after handleToggleTodo is called twice in a row with the id of an item,
\* todos is what it was before the two calls.
C9_ToggleTwice ==
    (last.op = "handleToggleTodo" /\ last.again /\ last.hit)
        => todos = last.before2

C9_Witness ==
    /\ last.op = "handleToggleTodo" /\ last.again /\ last.hit
    /\ Len(todos) = 2

\* C10: no call raises to its caller, whatever the entry under the key holds.
\* Violated under part_000 when the entry is valid JSON but no array:
\* loadedTodos.forEach throws outside loadFromLocalStorage's try.
C10_NothingRaises == ~last.raised /\ phase # "crashed"

\* the step is a handler call whose setItem threw
WriteFailed == last'.write = "failed" /\ failures' # failures

\* C11: when setItem throws during an add, toggle, delete or update, the call
\* still changes todos as it would have (the item is appended, flipped,
\* removed or retitled), nothing is raised, setItem is called once only, and
\* the entry under the key stays what it was.
C11_WriteFailureIsSwallowed ==
    [][WriteFailed =>
         /\ storage' = storage
         /\ ~last'.raised /\ phase' = phase
         /\ failures' = failures + 1
         /\ last'.op = "handleAddTodo" =>
              /\ Len(todos') = Len(todos) + 1
              /\ todos'[Len(todos')].text = Trim(last'.arg)
         /\ last'.op = "handleToggleTodo" =>
              todos'[Find(todos, last'.arg)].completed
                  = ~todos[Find(todos, last'.arg)].completed
         /\ last'.op = "handleDeleteTodo" =>
              /\ Absent(last'.arg, todos')
              /\ last'.hit => Len(todos') < Len(todos)
         /\ last'.op = "handleSaveEdit" =>
              todos'[Find(todos, editingTodo.id)].text = Trim(last'.arg)]_vars

C11_Witness ==
    /\ last.op = "handleToggleTodo" /\ last.write = "failed"
    /\ storage.present
    /\ JSONParse(storage.text).kind = "array"
    /\ JSONParse(storage.text).elems # todos

\* the step is a handleSaveEdit call, with editingTodo a copy of an item of
\* todos, that is not a repetition of the call before it
SaveOnPresent ==
    /\ last' # last
    /\ last'.op = "handleSaveEdit"
    /\ ~editingTodo.isNull
    /\ Find(todos, editingTodo.id) # 0

\* the item editingTodo is a copy of carries the typed title and description,
\* trimmed, after the step
Retitled ==
    /\ todos'[Find(todos, editingTodo.id)].text = Trim(last'.arg)
    /\ todos'[Find(todos, editingTodo.id)].description = Trim(last'.arg2)

\* C12 as stated: an update of an item in todos sets its text and description
\* to the trimmed inputs whatever the title is, and persists the result.
\* Violated by a blank title, which handleSaveEdit does not dispatch, and by a
\* setItem that throws.
C12_UpdateUnconditional ==
    [][SaveOnPresent
         => (Retitled /\ storage' = Item(JSONStringify(todos')))]_vars

\* C12: an update of an item in todos with a title that is not blank sets the
\* item's text and description to the trimmed inputs, and the entry under the
\* key to the encoding of the result when setItem returns; with a blank title
\* it changes neither todos nor the entry.
C12_UpdateTrimsUnlessBlank ==
    [][SaveOnPresent =>
         IF IsBlank(last'.arg)
         THEN UNCHANGED <<todos, storage>>
         ELSE /\ Retitled
              /\ last'.write = "ok" => storage' = Item(JSONStringify(todos'))]_vars

C12_Witness ==
    /\ last.op = "handleSaveEdit" /\ last.hit /\ last.write = "ok"
    /\ Trim(last.arg) # last.arg
    /\ \E i \in 1..Len(todos) :
         todos[i].text = Trim(last.arg) /\ todos[i].description = Trim(last.arg2)
    /\ PersistedIs(todos)

\* C13: handleSearchChange sets searchQuery to the value typed and leaves
\* todos and the entry under the key as they were; and whatever any step
\* writes under the key is the encoding of todos alone, so the entry holds
\* nothing of searchQuery.
C13_SearchChangesOnlyTheQuery ==
    [][/\ last'.op = "handleSearchChange"
            => (searchQuery' = last'.arg /\ UNCHANGED <<todos, storage>>)
       /\ storage' # storage => storage' = Item(JSONStringify(todos'))]_vars

C13_Witness ==
    /\ last.op = "handleSearchChange"
    /\ searchQuery = <<"A">>
    /\ Len(todos) >= 1
    /\ PersistedIs(todos)

\* the same letter, whatever its case
SameLetter(c, d) == c = d \/ {c, d} = {"a", "A"} \/ {c, d} = {"b", "B"}

\* q occurs in title, case ignored
Matches(title, q) ==
    \E k \in 0..(Len(title) - Len(q)) :
        \A j \in 1..Len(q) : SameLetter(title[k + j], q[j])

\* the positions in todos of the items whose text contains searchQuery
MatchingIndexes == {i \in 1..Len(todos) : Matches(todos[i].text, searchQuery)}

\* the k-th of them, in increasing order
NthMatching(k) ==
    CHOOSE i \in MatchingIndexes : Cardinality({j \in MatchingIndexes : j <= i}) = k

\* C14: filteredTodos is exactly the items of todos whose text contains
\* searchQuery, case ignored, in the order they have in todos; it is todos
\* when searchQuery is empty and empty when no text matches.  It is computed
\* from todos and searchQuery at render and assigned to nothing.
C14_FilteredViewIsMatchingSubsequence ==
    /\ Len(filteredTodos(todos, searchQuery)) = Cardinality(MatchingIndexes)
    /\ \A k \in 1..Cardinality(MatchingIndexes) :
         filteredTodos(todos, searchQuery)[k] = todos[NthMatching(k)]
    /\ searchQuery = <<>> => filteredTodos(todos, searchQuery) = todos
    /\ MatchingIndexes = {} => filteredTodos(todos, searchQuery) = <<>>

C14_Witness ==
    /\ searchQuery = <<"A">>
    /\ Len(todos) = 2
    /\ filteredTodos(todos, searchQuery) = <<todos[2]>>

\* the step follows an initializeTodos and is an initializeTodos, or a step
\* that leaves the store alone
InitializeAgain == last.op = "initializeTodos" /\ last'.op = "initializeTodos"

\* C15 as stated: a second initializeTodos in a row leaves todos, searchQuery
\* and the entry under the key as the first left them.  Violated when getItem
\* throws in one of the two calls.
C15_InitializeTwice ==
    [][InitializeAgain => UNCHANGED <<todos, searchQuery, storage>>]_vars

\* C15: a second initializeTodos in a row leaves todos, searchQuery and the
\* entry under the key as the first left them, when getItem returns in both.
C15_InitializeTwiceWhenRead ==
    [][(InitializeAgain /\ last.read = "ok" /\ last'.read = "ok")
         => UNCHANGED <<todos, searchQuery, storage>>]_vars

C15_Witness ==
    /\ last.op = "initializeTodos" /\ last.again
    /\ failures = 0
    /\ Len(todos) >= 1

\* the same id, text, description and completed flag
SameItem(a, b) ==
    /\ a.id = b.id
    /\ a.text = b.text
    /\ a.description = b.description
    /\ a.completed = b.completed

\* the step is a handleAddTodo call that dispatched addTodo
AddStep == last'.op = "handleAddTodo" /\ last'.hit /\ todos' # todos

\* C16: an add that is dispatched appends exactly one item at the end of todos,
\* not completed and carrying the text and description given to addTodo (the
\* trimmed contents of the two fields), and leaves the id, text, description,
\* completed flag and order of the items already there as they were.
C16_AddAppendsOne ==
    [][AddStep =>
         /\ Len(todos') = Len(todos) + 1
         /\ ~todos'[Len(todos')].completed
         /\ todos'[Len(todos')].text = Trim(last'.arg)
         /\ todos'[Len(todos')].description = Trim(last'.arg2)
         /\ \A i \in 1..Len(todos) : SameItem(todos'[i], todos[i])]_vars

C16_Witness ==
    /\ last.op = "handleAddTodo" /\ last.hit
    /\ Len(todos) = 2
    /\ todos[1].completed
    /\ todos[2].description # <<>>

\* the step is a handleDeleteTodo call with the id of an item of todos
DeleteHit == last'.op = "handleDeleteTodo" /\ last'.hit /\ todos' # todos

\* C17: a delete with the id of an item of todos removes exactly one item, the
\* one with that id, and leaves the others in their order with their id, text,
\* description and completed flag.  Violated under part_000 when two items got
\* the same id from Date.now(): filter removes both.
C17_DeleteRemovesOne ==
    [][DeleteHit =>
         /\ Len(todos') = Len(todos) - 1
         /\ Absent(last'.arg, todos')
         /\ \E k \in 1..Len(todos) :
              /\ todos[k].id = last'.arg
              /\ \A i \in 1..Len(todos') :
                   SameItem(todos'[i], todos[IF i < k THEN i ELSE i + 1])]_vars

\* C18: a toggle with the id of an item of todos flips the completed flag of
\* one item with that id and changes nothing else in todos, nor searchQuery.
C18_ToggleFlipsOneFlag ==
    [][(last'.op = "handleToggleTodo" /\ last'.hit) =>
         /\ \E i \in 1..Len(last'.before) :
              /\ last'.before[i].id = last'.arg
              /\ todos' = [last'.before EXCEPT
                               ![i].completed = ~last'.before[i].completed]
         /\ todos' # todos => searchQuery' = searchQuery]_vars

C18_Witness ==
    /\ last.op = "handleToggleTodo" /\ last.hit
    /\ Len(todos) = 2
    /\ todos[1].completed # todos[2].completed
    /\ searchQuery # <<>>

\* C19: an update changes at most the text and description of the item
\* editingTodo is a copy of: that item's id, completed flag, todoNo and
\* position, every other item, the length of todos and searchQuery stay as
\* they were.
C19_UpdateChangesOnlyTexts ==
    [][last'.op = "handleSaveEdit" =>
         /\ Len(todos') = Len(todos)
         /\ searchQuery' = searchQuery
         /\ \A j \in 1..Len(todos) :
              IF ~editingTodo.isNull /\ j = Find(todos, editingTodo.id)
              THEN /\ todos'[j].id = todos[j].id
                   /\ todos'[j].completed = todos[j].completed
                   /\ todos'[j].todoNo = todos[j].todoNo
              ELSE todos'[j] = todos[j]]_vars

C19_Witness ==
    /\ last.op = "handleSaveEdit" /\ last.hit
    /\ Len(todos) = 2
    /\ searchQuery # <<>>
    /\ \E i \in 1..Len(todos) :
         /\ todos[i].text = Trim(last.arg)
         /\ todos[i].description = Trim(last.arg2)
         /\ todos[i].completed

\* every text in todos is non-empty and neither starts nor ends with
\* whitespace
TitlesTrimmed ==
    \A i \in 1..Len(todos) :
        /\ todos[i].text # <<>>
        /\ todos[i].text[1] \notin Whitespace
        /\ todos[i].text[Len(todos[i].text)] \notin Whitespace

\* the step is a handleSaveEdit call with a blank title that is not a
\* repetition of the call before it
BlankSave == last' # last /\ last'.op = "handleSaveEdit" /\ IsBlank(last'.arg)

\* C20: driven through TodoList's handlers, every item of todos always has a
\* text that is non-empty and has no leading or trailing whitespace; and a
\* handleSaveEdit with a blank title dispatches nothing: it leaves the store,
\* editingTodo and isEditModalOpen as they were.
C20_TitlesStayTrimmed ==
    [][/\ TitlesTrimmed'
       /\ BlankSave => UNCHANGED <<todos, searchQuery, storage, editingTodo,
                                   isEditModalOpen>>]_vars

C20_Witness ==
    /\ last.op = "handleSaveEdit" /\ IsBlank(last.arg) /\ last.arg # <<>>
    /\ isEditModalOpen /\ ~editingTodo.isNull
    /\ \E i \in 1..Len(todos) : todos[i].text = <<"B">>

\* the dialog is open exactly when editingTodo is not null
DialogMatchesEditingTodo == isEditModalOpen <=> ~editingTodo.isNull

\* the step is a handleSaveEdit call that follows the handleDeleteTodo call
\* which removed the item editingTodo is a copy of
SaveAfterDelete ==
    /\ last.op = "handleDeleteTodo" /\ last.hit
    /\ last'.op = "handleSaveEdit"
    /\ isEditModalOpen /\ ~editingTodo.isNull
    /\ last.arg = editingTodo.id
    /\ Absent(editingTodo.id, todos)

\* C21 as stated: the dialog is open exactly when editingTodo is not null, and
\* a handleSaveEdit after the edited item was deleted closes the dialog and
\* leaves todos as it was.  Violated when the title in the dialog is blank:
\* handleSaveEdit then does nothing and the dialog stays open.
C21_SaveAfterDeleteCloses ==
    [][/\ DialogMatchesEditingTodo'
       /\ SaveAfterDelete => (~isEditModalOpen' /\ todos' = todos)]_vars

\* C21: the dialog is open exactly when editingTodo is not null; a
\* handleSaveEdit after the edited item was deleted leaves todos as it was,
\* and closes the dialog and clears editingTodo when the title in the dialog
\* is not blank, while with a blank title it leaves both as they were.
C21_SaveAfterDeleteClosesUnlessBlank ==
    [][/\ DialogMatchesEditingTodo'
       /\ SaveAfterDelete =>
            /\ todos' = todos
            /\ IF IsBlank(last'.arg)
               THEN UNCHANGED <<isEditModalOpen, editingTodo>>
               ELSE ~isEditModalOpen' /\ editingTodo'.isNull]_vars

C21_Witness ==
    /\ last.op = "handleSaveEdit" /\ ~last.hit /\ ~IsBlank(last.arg)
    /\ ~isEditModalOpen /\ editingTodo.isNull
    /\ Len(todos) >= 1

\* the step's last call is one whose reducer ends with saveToLocalStorage:
\* an add that was dispatched, a delete, a toggle or update that found its item
WriteCall ==
    \/ last'.op = "handleDeleteTodo"
    \/ /\ last'.op \in {"handleAddTodo", "handleToggleTodo", "handleSaveEdit"}
       /\ last'.hit

\* the step's last call is one that reaches no saveToLocalStorage
NoWriteCall ==
    \/ last'.op \in {"handleSearchChange", "initializeTodos"}
    \/ /\ last'.op \in {"handleAddTodo", "handleToggleTodo", "handleSaveEdit"}
       /\ ~last'.hit

\* C22: setItem is called exactly by an add that is dispatched, by a delete
\* (its id found or not) and by a toggle or update that finds its id: such a
\* call leaves the encoding of todos under the key when setItem returns and
\* the entry untouched when it throws.  A toggle or update that finds no item,
\* a search change and initializeTodos call no setItem and leave the entry as
\* it was.
C22_WritesExactlyOnMutation ==
    [][/\ NoWriteCall =>
            /\ storage' = storage
            /\ last'.write = "none"
            /\ last'.op # "initializeTodos" => failures' = failures
       /\ (WriteCall /\ last' # last) =>
            /\ last'.write \in {"ok", "failed"}
            /\ last'.write = "ok" =>
                 (storage' = Item(JSONStringify(todos')) /\ failures' = failures)
            /\ last'.write = "failed" =>
                 (storage' = storage /\ failures' = failures + 1)]_vars

C22_Witness ==
    /\ last.op = "handleToggleTodo" /\ ~last.hit /\ last.write = "none"
    /\ Len(todos) >= 1
    /\ PersistedIs(todos)

====
